---- MODULE Spec2Model ----
(***************************************************************************)
(* Model of pdf-split: PDFSplitter (src/src/pdf_splitter/splitter.py) and  *)
(* the CLI entry point main (src/src/pdf_splitter/cli.py).                 *)
(*                                                                         *)
(* A document is its page count `total`; a page is its 0-based index.  A   *)
(* new document built by a strategy is the sequence of page indices handed *)
(* to insert_pdf(from_page = to_page = page_num), in call order, plus the  *)
(* table of contents given to set_toc.  Strings that the code formats or   *)
(* filters (file names, bookmark titles, range tokens) are sequences of    *)
(* one-character strings.                                                  *)
(***************************************************************************)
EXTENDS Integers, Sequences, FiniteSets, TLC

\* ------------------------------------------------------------------ bounds
MaxPages == 3
MaxRanges == 2
MaxRangeVal == 3
MaxToc == 2

\* -------------------------------------------------------------- characters
DigitChars == <<"0", "1", "2", "3", "4", "5", "6", "7", "8", "9">>

Digits == {DigitChars[k] : k \in 1..10}

Letters ==
  {"a", "b", "c", "d", "e", "f", "g", "h", "i", "j", "k", "l", "m", "n", "o",
   "p", "q", "r", "s", "t", "u", "v", "w", "x", "y", "z",
   "A", "B", "C", "D", "E", "F", "G", "H", "I", "J", "K", "L", "M", "N", "O",
   "P", "Q", "R", "S", "T", "U", "V", "W", "X", "Y", "Z"}

\* str.isalnum() on one character
IsAlnum(c) == c \in Letters \cup Digits

\* str(n) for an int
RECURSIVE NatToStr(_)
NatToStr(n) ==
  IF n < 10 THEN <<DigitChars[n + 1]>>
  ELSE NatToStr(n \div 10) \o <<DigitChars[(n % 10) + 1]>>

IntToStr(n) == IF n < 0 THEN <<"-">> \o NatToStr(-n) ELSE NatToStr(n)

\* Python's min and //
Min(a, b) == IF a <= b THEN a ELSE b

FloorDiv(a, b) == IF b > 0 THEN a \div b ELSE (-a) \div (-b)

\* list(range(a, b))
Range(a, b) == IF b > a THEN [k \in 1..(b - a) |-> a + k - 1] ELSE <<>>

SeqsUpTo(S, n) == UNION {[1..k -> S] : k \in 0..n}

\* Path(input_pdf).stem of the one input document
filename == <<"d", "o", "c">>

PdfExt == <<".", "p", "d", "f">>

\* ---------------------------------------------------------- split_by_pages
NumFilesFloor(tp, ppf) == FloorDiv(tp, ppf)

NumFiles(tp, ppf) == FloorDiv(tp + ppf - 1, ppf)

PagesEndPageOverlap(i, ppf, tp) == Min((i + 1) * ppf + 1, tp)

PagesEndPage(i, ppf, tp) == Min((i + 1) * ppf, tp)

PagesPath(i) == filename \o <<"_", "p", "a", "r", "t">> \o IntToStr(i + 1) \o PdfExt

\* One record per loop iteration: engine = the iteration calls the engine,
\* save = new_doc.save is reached, warn = the skip warning is printed.
PagesIters(tp, ppf) ==
  [k \in 1..(IF NumFiles(tp, ppf) > 0 THEN NumFiles(tp, ppf) ELSE 0) |->
     LET i == k - 1
         start_page == i * ppf
         end_page == PagesEndPage(i, ppf, tp)
     IN  [engine |-> TRUE, save |-> TRUE, warn |-> FALSE,
          path |-> PagesPath(i), pages |-> Range(start_page, end_page),
          toc |-> <<>>]]

\* ---------------------------------------------------------- split_by_range
RangeStartPage(start) == start - 1

RangeEndPageUnclamped(end, tp) == end

RangeEndPage(end, tp) == Min(end, tp)

RangePath(start, end) ==
  filename \o <<"_", "r", "a", "n", "g", "e", "_">> \o IntToStr(start)
           \o <<"-">> \o IntToStr(end) \o PdfExt

RangeIters(tp, ranges) ==
  [k \in 1..Len(ranges) |->
     LET start == ranges[k][1]
         end == ranges[k][2]
         pages == Range(RangeStartPage(start), RangeEndPage(end, tp))
         page_count == Len(pages)
     IN  [engine |-> TRUE, save |-> page_count > 0, warn |-> ~(page_count > 0),
          path |-> RangePath(start, end), pages |-> pages, toc |-> <<>>]]

\* ------------------------------------------------------- split_by_bookmark
MaxTitleLen == 50

EndTitle == <<"E", "n", "d">>

Whitespace == {" ", "\t", "\n"}

\* "".join(c for c in title if c.isalnum() or c in (' ', '-', '_'))
KeepSafeChars(title) ==
  SelectSeq(title, LAMBDA c : IsAlnum(c) \/ c \in {" ", "-", "_"})

\* str.strip()
RECURSIVE Strip(_)
Strip(s) ==
  IF s = <<>> THEN s
  ELSE IF Head(s) \in Whitespace THEN Strip(Tail(s))
  ELSE IF s[Len(s)] \in Whitespace THEN Strip(SubSeq(s, 1, Len(s) - 1))
  ELSE s

\* safe_title; i is the 0-based loop index
SafeTitle(title, i) ==
  LET s == Strip(KeepSafeChars(title))
  IN  IF s # <<>> THEN SubSeq(s, 1, Min(Len(s), MaxTitleLen))
      ELSE <<"s", "e", "c", "t", "i", "o", "n", "_">> \o IntToStr(i + 1)

BookmarkPath(title, i) == filename \o <<"_">> \o SafeTitle(title, i) \o PdfExt

\* toc.append((toc[-1][0], "End", total_pages))
WithSentinel(t, tp) ==
  Append(t, [level |-> t[Len(t)].level, title |-> EndTitle, page |-> tp])

\* index (1-based) of the next level-1 entry after position k, 0 if none
NextTop(tc, k) ==
  LET js == {j \in (k + 1)..Len(tc) : tc[j].level = 1}
  IN  IF js = {} THEN 0 ELSE CHOOSE j \in js : \A j2 \in js : j <= j2

\* end_page of the section of the level-1 entry at position k
EndPage(tc, k, tp) ==
  IF NextTop(tc, k) = 0 THEN tp + 1 ELSE tc[NextTop(tc, k)].page

\* the page indices copied for a section
SectionPages(start_page, end_page, tp) ==
  SelectSeq(Range(start_page - 1, end_page - 1), LAMBDA p : p < tp)

\* section_toc of the level-1 entry at position k
SectionToc(tc, k, tp) ==
  LET last == IF NextTop(tc, k) = 0 THEN Len(tc) ELSE NextTop(tc, k) - 1
      subs == SelectSeq(SubSeq(tc, k + 1, last),
                        LAMBDA e : e.page < EndPage(tc, k, tp))
  IN  <<[level |-> tc[k].level, title |-> tc[k].title, page |-> 1]>>
      \o [j \in 1..Len(subs) |->
            [level |-> subs[j].level, title |-> subs[j].title,
             page |-> subs[j].page - tc[k].page + 1]]

NoIter ==
  [engine |-> FALSE, save |-> FALSE, warn |-> FALSE,
   path |-> <<>>, pages |-> <<>>, toc |-> <<>>]

\* t is the non-empty table of contents get_toc returned
BookmarkIters(t, tp) ==
  LET tc == WithSentinel(t, tp)
  IN  [k \in 1..(Len(tc) - 1) |->
         IF tc[k].level = 1
         THEN LET pages == SectionPages(tc[k].page, EndPage(tc, k, tp), tp)
                  page_count == Len(pages)
                  section_toc == SectionToc(tc, k, tp)
              IN  [engine |-> TRUE, save |-> page_count > 0,
                   warn |-> ~(page_count > 0),
                   path |-> BookmarkPath(tc[k].title, k - 1),
                   pages |-> pages,
                   toc |-> IF page_count > 0 /\ Len(section_toc) > 1
                           THEN section_toc ELSE <<>>]
         ELSE NoIter]

\* -------------------------------------------------------- split_by_keyword
\* the scan loop: pages p..tp-1 whose text contains the keyword, in order
RECURSIVE KeywordScan(_, _, _)
KeywordScan(M, p, tp) ==
  IF p >= tp THEN <<>>
  ELSE (IF p \in M THEN <<p>> ELSE <<>>) \o KeywordScan(M, p + 1, tp)

SplitPointsNoEnd(M, tp) == <<0>> \o KeywordScan(M, 0, tp)

SplitPoints(M, tp) == <<0>> \o KeywordScan(M, 0, tp) \o <<tp>>

KeywordPath(i) ==
  filename \o <<"_", "k", "e", "y", "w", "o", "r", "d", "_">>
           \o IntToStr(i + 1) \o PdfExt

KeywordIters(M, tp) ==
  LET split_points == SplitPoints(M, tp)
  IN  [k \in 1..(Len(split_points) - 1) |->
         LET start_page == split_points[k]
             end_page == split_points[k + 1]
         IN  IF end_page > start_page
             THEN [engine |-> TRUE, save |-> TRUE, warn |-> FALSE,
                   path |-> KeywordPath(k - 1),
                   pages |-> Range(start_page, end_page), toc |-> <<>>]
             ELSE NoIter]

\* ------------------------------------------------- running a strategy loop
\* The loop runs its iterations in order.  fail = 0: every iteration ends
\* and the method closes self.doc and returns.  fail = k > 0: the engine
\* raises inside iteration k (insert_pdf or save); iterations before k are
\* done, the exception leaves the method, self.doc.close() is not reached.
Wanted(iters, n) == SelectSeq(SubSeq(iters, 1, n), LAMBDA r : r.save)

Run(iters, fail) ==
  LET n == IF fail = 0 THEN Len(iters) ELSE fail - 1
      w == Wanted(iters, n)
  IN  [raised |-> fail # 0, closed |-> fail = 0,
       output_files |-> [k \in 1..Len(w) |-> w[k].path],
       saved |-> [k \in 1..Len(w) |-> [pages |-> w[k].pages, toc |-> w[k].toc]],
       warned |-> {k \in 1..n : iters[k].warn}]

\* the iterations in which the engine may raise
FailPoints(iters) == {0} \cup {k \in 1..Len(iters) : iters[k].engine}

\* pages_per_file = 0 raises ZeroDivisionError at line 40, before the loop
RaisedBeforeLoop ==
  [raised |-> TRUE, closed |-> FALSE,
   output_files |-> <<>>, saved |-> <<>>, warned |-> {}]

\* the early return of split_by_bookmark on an empty table of contents
ReturnedEmpty ==
  [raised |-> FALSE, closed |-> TRUE,
   output_files |-> <<>>, saved |-> <<>>, warned |-> {}]

\* what each strategy method does, given the engine's fail point
SplitByPagesResult(tp, ppf, fail) ==
  IF ppf = 0 THEN RaisedBeforeLoop ELSE Run(PagesIters(tp, ppf), fail)

SplitByRangeResult(tp, ranges, fail) == Run(RangeIters(tp, ranges), fail)

SplitByBookmarkResult(tp, t, fail) ==
  IF t = <<>> THEN ReturnedEmpty ELSE Run(BookmarkIters(t, tp), fail)

SplitByKeywordResult(tp, M, fail) == Run(KeywordIters(M, tp), fail)

PagesFailPoints(tp, ppf) ==
  IF ppf = 0 THEN {0} ELSE FailPoints(PagesIters(tp, ppf))

BookmarkFailPoints(tp, t) ==
  IF t = <<>> THEN {0} ELSE FailPoints(BookmarkIters(t, tp))

\* ---------------------------------------------------------------- cli.main
\* r.split("-")
RECURSIVE SplitDash(_)
SplitDash(r) ==
  LET ds == {k \in 1..Len(r) : r[k] = "-"}
  IN  IF ds = {} THEN <<r>>
      ELSE LET k == CHOOSE d \in ds : \A d2 \in ds : d <= d2
           IN  <<SubSeq(r, 1, k - 1)>> \o SplitDash(SubSeq(r, k + 1, Len(r)))

\* int(s) succeeds (s holds no sign: the dashes are split away)
IsInt(s) == s # <<>> /\ \A k \in 1..Len(s) : s[k] \in Digits

DigitVal(c) == CHOOSE d \in 0..9 : DigitChars[d + 1] = c

RECURSIVE StrToNat(_)
StrToNat(s) ==
  IF Len(s) = 1 THEN DigitVal(s[1])
  ELSE 10 * StrToNat(SubSeq(s, 1, Len(s) - 1)) + DigitVal(s[Len(s)])

\* start, end = map(int, r.split("-")): ValueError unless exactly two ints
TokenOk(r) ==
  LET parts == SplitDash(r)
  IN  Len(parts) = 2 /\ IsInt(parts[1]) /\ IsInt(parts[2])

TokenRange(r) ==
  LET parts == SplitDash(r) IN <<StrToNat(parts[1]), StrToNat(parts[2])>>

\* the parsing loop of main: every token parses, or the first bad one raises
ParseOk(tokens) == \A k \in 1..Len(tokens) : TokenOk(tokens[k])

ParseRanges(tokens) == [k \in 1..Len(tokens) |-> TokenRange(tokens[k])]

\* main's return value after the try block: line 72 or line 76
ExitAlwaysZero(raised) == 0

ExitCodeOf(raised) == IF raised THEN 1 ELSE 0

\* ------------------------------------------------------------------ inputs
Modes == {"pages", "range", "bookmark", "keyword"}

PpfValues == (-1)..(MaxPages + 1)

RangePairs == (0..MaxRangeVal) \X (0..MaxRangeVal)

RangeLists == SeqsUpTo(RangePairs, MaxRanges)

Titles == {<<"A">>, <<"A", "/">>, <<"/">>}

Levels == {1, 2}

Entries(tp) == [level : Levels, title : Titles, page : 1..tp]

Tocs(tp) == SeqsUpTo(Entries(tp), MaxToc)

KeywordSets(tp) == SUBSET (0..(tp - 1))

Tokens ==
  {<<"1", "-", "2">>, <<"0", "-", "1">>, <<"3", "-", "1">>,
   <<"2", "-", "1", "2">>, <<"x", "-", "1">>, <<"1", "-", "2", "-", "3">>,
   <<"-", "1", "-", "2">>, <<"1", "2">>}

TokenLists == SeqsUpTo(Tokens, MaxRanges) \ {<<>>}

\* ------------------------------------------------------------ the variables
VARIABLES
  total,          \* len(self.doc)
  docOpen,        \* self.doc is open
  pc,             \* "new" | "idle" | "done" | "raised" | "exited"
  mode,           \* the strategy invoked
  cli,            \* invoked through main
  exitCode,       \* main's return value, -1 before it returns
  event,          \* how main's run went
  pages_per_file, \* argument of split_by_pages
  page_ranges,    \* argument of split_by_range
  range_tokens,   \* args.ranges of main
  toc,            \* self.doc.get_toc()
  matches,        \* pages whose get_text() contains the keyword
  output_files,   \* the list the strategy builds
  saved,          \* the documents saved, parallel to output_files
  warned          \* loop indices (1-based) that printed the skip warning

vars == <<total, docOpen, pc, mode, cli, exitCode, event, pages_per_file,
          page_ranges, range_tokens, toc, matches, output_files, saved, warned>>

\* The document on disk; no splitter is constructed yet.
Init ==
  /\ total \in 0..MaxPages
  /\ docOpen = FALSE
  /\ pc = "new"
  /\ mode = "none"
  /\ cli = FALSE
  /\ exitCode = -1
  /\ event = "none"
  /\ pages_per_file = 0
  /\ page_ranges = <<>>
  /\ range_tokens = <<>>
  /\ toc = <<>>
  /\ matches = {}
  /\ output_files = <<>>
  /\ saved = <<>>
  /\ warned = {}

\* PDFSplitter(input_pdf), called by a library user
Construct ==
  /\ pc = "new"
  /\ pc' = "idle"
  /\ docOpen' = TRUE
  /\ UNCHANGED <<total, mode, cli, exitCode, event, pages_per_file,
                 page_ranges, range_tokens, toc, matches, output_files,
                 saved, warned>>

\* the state a strategy method leaves behind
Leave(res) ==
  /\ docOpen' = ~res.closed
  /\ output_files' = res.output_files
  /\ saved' = res.saved
  /\ warned' = res.warned

\* a strategy method called by a library user on an open splitter
ApiCall(m, res) ==
  /\ pc = "idle"
  /\ mode' = m
  /\ pc' = IF res.raised THEN "raised" ELSE "done"
  /\ Leave(res)
  /\ UNCHANGED <<total, cli, exitCode, event, range_tokens>>

split_by_pages ==
  /\ pc = "idle"
  /\ \E ppf \in PpfValues : \E fail \in PagesFailPoints(total, ppf) :
       /\ ApiCall("pages", SplitByPagesResult(total, ppf, fail))
       /\ pages_per_file' = ppf
       /\ UNCHANGED <<page_ranges, toc, matches>>

split_by_range ==
  /\ pc = "idle"
  /\ \E ranges \in RangeLists : \E fail \in FailPoints(RangeIters(total, ranges)) :
       /\ ApiCall("range", SplitByRangeResult(total, ranges, fail))
       /\ page_ranges' = ranges
       /\ UNCHANGED <<pages_per_file, toc, matches>>

split_by_bookmark ==
  /\ pc = "idle"
  /\ \E t \in Tocs(total) : \E fail \in BookmarkFailPoints(total, t) :
       /\ ApiCall("bookmark", SplitByBookmarkResult(total, t, fail))
       /\ toc' = t
       /\ UNCHANGED <<pages_per_file, page_ranges, matches>>

split_by_keyword ==
  /\ pc = "idle"
  /\ \E M \in KeywordSets(total) : \E fail \in FailPoints(KeywordIters(M, total)) :
       /\ ApiCall("keyword", SplitByKeywordResult(total, M, fail))
       /\ matches' = M
       /\ UNCHANGED <<pages_per_file, page_ranges, toc>>

\* main returns without reaching the strategy call
MainStops(m, code, ev, opened) ==
  /\ pc = "new"
  /\ pc' = "exited"
  /\ cli' = TRUE
  /\ mode' = m
  /\ exitCode' = code
  /\ event' = ev
  /\ docOpen' = opened
  /\ UNCHANGED <<total, pages_per_file, page_ranges, toc, matches,
                 output_files, saved, warned>>

\* main with no subcommand: help, return 0 (the input is not looked at)
MainHelp == MainStops("none", 0, "help", FALSE) /\ UNCHANGED range_tokens

\* main with a subcommand and an input path that does not exist: return 1
MainMissing ==
  /\ pc = "new"
  /\ \E m \in Modes : MainStops(m, 1, "missing", FALSE)
  /\ UNCHANGED range_tokens

\* pymupdf.open raises in the constructor: caught, return 1
MainOpenError ==
  /\ pc = "new"
  /\ \E m \in Modes : MainStops(m, ExitCodeOf(TRUE), "open_error", FALSE)
  /\ UNCHANGED range_tokens

\* a range token does not parse: caught, return 1, the strategy is not called
MainParseError ==
  /\ pc = "new"
  /\ \E tokens \in TokenLists :
       /\ ~ParseOk(tokens)
       /\ MainStops("range", ExitCodeOf(TRUE), "parse_error", TRUE)
       /\ range_tokens' = tokens

\* main constructs the splitter, runs the strategy and returns
MainRuns(m, res) ==
  /\ pc = "new"
  /\ pc' = "exited"
  /\ cli' = TRUE
  /\ mode' = m
  /\ exitCode' = ExitCodeOf(res.raised)
  /\ event' = IF res.raised THEN "strategy_error" ELSE "completed"
  /\ Leave(res)
  /\ UNCHANGED total

MainPages ==
  /\ pc = "new"
  /\ \E num \in PpfValues : \E fail \in PagesFailPoints(total, num) :
       /\ MainRuns("pages", SplitByPagesResult(total, num, fail))
       /\ pages_per_file' = num
       /\ UNCHANGED <<page_ranges, range_tokens, toc, matches>>

MainRange ==
  /\ pc = "new"
  /\ \E tokens \in TokenLists :
       /\ ParseOk(tokens)
       /\ \E fail \in FailPoints(RangeIters(total, ParseRanges(tokens))) :
            /\ MainRuns("range", SplitByRangeResult(total, ParseRanges(tokens), fail))
            /\ page_ranges' = ParseRanges(tokens)
            /\ range_tokens' = tokens
            /\ UNCHANGED <<pages_per_file, toc, matches>>

MainBookmark ==
  /\ pc = "new"
  /\ \E t \in Tocs(total) : \E fail \in BookmarkFailPoints(total, t) :
       /\ MainRuns("bookmark", SplitByBookmarkResult(total, t, fail))
       /\ toc' = t
       /\ UNCHANGED <<pages_per_file, page_ranges, range_tokens, matches>>

MainKeyword ==
  /\ pc = "new"
  /\ \E M \in KeywordSets(total) : \E fail \in FailPoints(KeywordIters(M, total)) :
       /\ MainRuns("keyword", SplitByKeywordResult(total, M, fail))
       /\ matches' = M
       /\ UNCHANGED <<pages_per_file, page_ranges, range_tokens, toc>>

Next ==
  \/ Construct
  \/ split_by_pages
  \/ split_by_range
  \/ split_by_bookmark
  \/ split_by_keyword
  \/ MainHelp
  \/ MainMissing
  \/ MainOpenError
  \/ MainParseError
  \/ MainPages
  \/ MainRange
  \/ MainBookmark
  \/ MainKeyword

Spec == Init /\ [][Next]_vars

\* ================================================================== claims
\* a strategy method returned normally (to a library user or to main)
Returned == pc = "done" \/ (pc = "exited" /\ event = "completed")

\* a strategy method was entered and has ended, by return or by exception
Ended ==
  pc \in {"done", "raised"}
    \/ (pc = "exited" /\ event \in {"completed", "strategy_error"})

RECURSIVE ConcatPages(_)
ConcatPages(docs) ==
  IF docs = <<>> THEN <<>> ELSE Head(docs).pages \o ConcatPages(Tail(docs))

RECURSIVE SortSet(_)
SortSet(S) ==
  IF S = {} THEN <<>>
  ELSE LET m == CHOOSE x \in S : \A y \in S : x <= y
       IN  <<m>> \o SortSet(S \ {m})

NoRepeat(q) == \A a, b \in 1..Len(q) : a # b => q[a] # q[b]

\* the pages a .. b-1 in ascending order, stated without Range
IsInterval(pages, a, b) ==
  /\ Len(pages) = b - a
  /\ \A j \in 1..Len(pages) : pages[j] = a + j - 1

\* ---- C1
\* C1: for total >= 0 and pages_per_file >= 1, split_by_pages returns
\* ceil(total / pages_per_file) paths; output i (0-based) holds the pages
\* [i*pages_per_file, min((i+1)*pages_per_file, total)) in ascending order;
\* every output but the last has pages_per_file pages, the last has
\* total mod pages_per_file pages (pages_per_file if divisible); the page
\* counts sum to total.
C1_PagesPartition ==
  (Returned /\ mode = "pages" /\ pages_per_file >= 1) =>
    LET ppf == pages_per_file
        n == Len(output_files)
    IN  /\ n * ppf >= total
        /\ (n > 0 => (n - 1) * ppf < total)
        /\ Len(saved) = n
        /\ \A k \in 1..n :
             /\ IsInterval(saved[k].pages, (k - 1) * ppf, Min(k * ppf, total))
             /\ k < n => Len(saved[k].pages) = ppf
             /\ k = n => Len(saved[k].pages) =
                           (IF total % ppf = 0 THEN ppf ELSE total % ppf)
        /\ Len(ConcatPages(saved)) = total

C1_Witness ==
  /\ pc = "done" /\ mode = "pages"
  /\ total = 3 /\ pages_per_file = 2
  /\ Len(output_files) = 2
  /\ saved[2].pages = <<2>>

\* ---- C2
\* the sections the claim gives the level-1 entries of t, empty ones left out
ClaimedSections(t, tp) ==
  LET tops == SortSet({k \in 1..Len(t) : t[k].level = 1})
      next(k) == {j \in (k + 1)..Len(t) : t[j].level = 1}
      last(k) == IF next(k) = {} THEN tp
                 ELSE t[CHOOSE j \in next(k) : \A j2 \in next(k) : j <= j2].page - 1
      all == [a \in 1..Len(tops) |-> Range(t[tops[a]].page - 1, last(tops[a]))]
  IN  SelectSeq(all, LAMBDA q : q # <<>>)

\* C2: for a non-empty table of contents, split_by_bookmark gives each
\* level-1 entry the pages from its starting page up to, not including, the
\* starting page of the next level-1 entry, and up to and including the
\* last page of the document when no level-1 entry follows.
C2_BookmarkSections ==
  (Returned /\ mode = "bookmark" /\ toc # <<>>) =>
    [k \in 1..Len(saved) |-> saved[k].pages] = ClaimedSections(toc, total)

\* ---- C3
\* C3: for total >= 1 and the set M of matching pages, split_by_keyword
\* saves, in order, the non-empty intervals between consecutive elements of
\* the sorted sequence 0, M, total; every matching page starts an output,
\* the first output starts at page 0, the last ends at total, no output is
\* empty, and an empty M gives one output with all pages.
C3_KeywordPartition ==
  (Returned /\ mode = "keyword" /\ total >= 1) =>
    LET pts == SortSet({0} \cup matches \cup {total})
        n == Len(pts) - 1
    IN  /\ Len(saved) = n
        /\ Len(output_files) = n
        /\ \A k \in 1..n :
             /\ IsInterval(saved[k].pages, pts[k], pts[k + 1])
             /\ saved[k].pages # <<>>
        /\ \A p \in matches : \E k \in 1..n : saved[k].pages[1] = p
        /\ saved[1].pages[1] = 0
        /\ saved[n].pages[Len(saved[n].pages)] = total - 1
        /\ matches = {} => (n = 1 /\ Len(saved[1].pages) = total)

C3_Witness ==
  /\ pc = "done" /\ mode = "keyword"
  /\ total = 3 /\ matches = {0, 2}
  /\ Len(output_files) = 2
  /\ saved[2].pages = <<2>>

\* ---- C4
ValidRanges(ranges) ==
  \A k \in 1..Len(ranges) : 1 <= ranges[k][1] /\ ranges[k][1] <= ranges[k][2]

\* C4: for 1-based ranges with 1 <= start <= end, in any order, possibly
\* overlapping, split_by_range returns one output per range with
\* start <= total, in input order, holding the pages start..min(end, total);
\* a range with start > total gives no file and a warning, and the ranges
\* after it are still processed.
C4_RangeOutputs ==
  (Returned /\ mode = "range" /\ ValidRanges(page_ranges)) =>
    LET kept == SortSet({k \in 1..Len(page_ranges) : page_ranges[k][1] <= total})
    IN  /\ Len(saved) = Len(kept)
        /\ Len(output_files) = Len(kept)
        /\ \A a \in 1..Len(kept) :
             IsInterval(saved[a].pages, page_ranges[kept[a]][1] - 1,
                        Min(page_ranges[kept[a]][2], total))
        /\ warned = {k \in 1..Len(page_ranges) : page_ranges[k][1] > total}

C4_Witness ==
  /\ pc = "done" /\ mode = "range"
  /\ total = 2 /\ page_ranges = <<<<3, 3>>, <<2, 3>>>>
  /\ warned = {1}
  /\ Len(output_files) = 1
  /\ saved[1].pages = <<1>>

\* ---- C5
NonOverlapping(ranges) ==
  \A a, b \in 1..Len(ranges) :
    a # b => (ranges[a][2] < ranges[b][1] \/ ranges[b][2] < ranges[a][1])

\* C5 as claimed: for split_by_pages (pages_per_file >= 1), split_by_keyword,
\* split_by_bookmark (non-empty table of contents) and split_by_range
\* (non-overlapping ranges), the pages of the outputs, concatenated in
\* returned order, are the pages 0..total-1.
C5_RoundTripEveryStrategy ==
  (Returned /\ (\/ mode = "pages" /\ pages_per_file >= 1
                \/ mode = "keyword"
                \/ mode = "bookmark" /\ toc # <<>>
                \/ mode = "range" /\ ValidRanges(page_ranges)
                                  /\ NonOverlapping(page_ranges))) =>
    IsInterval(ConcatPages(saved), 0, total)

\* C5 as amended: for split_by_pages (pages_per_file >= 1) and
\* split_by_keyword the concatenation is the pages 0..total-1; for
\* split_by_range with valid, non-overlapping ranges no page is duplicated
\* and every output page is a page of the document.
C5_RoundTrip ==
  /\ (Returned /\ (\/ mode = "pages" /\ pages_per_file >= 1
                   \/ mode = "keyword")) =>
       IsInterval(ConcatPages(saved), 0, total)
  /\ (Returned /\ mode = "range" /\ ValidRanges(page_ranges)
               /\ NonOverlapping(page_ranges)) =>
       /\ NoRepeat(ConcatPages(saved))
       /\ \A j \in 1..Len(ConcatPages(saved)) :
            ConcatPages(saved)[j] \in 0..(total - 1)

C5_Witness ==
  /\ pc = "done" /\ mode = "pages"
  /\ total = 3 /\ pages_per_file = 1
  /\ Len(saved) = 3
  /\ ConcatPages(saved) = <<0, 1, 2>>

\* ---- C6
\* C6: when a strategy method ends, by normal return, by the early return of
\* split_by_bookmark on an empty table of contents, or by an error raised
\* by the engine, the source document is closed.
C6_ClosedOnEveryExit == Ended => ~docOpen

\* ---- C7
\* C7: for any integer pairs given to split_by_range, start < 1 and
\* end > total included, every page-copy call uses an index i with
\* 0 <= i < total.
C7_CopyIndicesInBounds ==
  (Ended /\ mode = "range") =>
    \A k \in 1..Len(saved) : \A j \in 1..Len(saved[k].pages) :
      saved[k].pages[j] \in 0..(total - 1)

\* ---- C8
\* a token of the form <int>-<int>: digits, one dash, digits
WellFormed(r) ==
  \E d \in 2..(Len(r) - 1) :
    /\ r[d] = "-"
    /\ \A k \in 1..Len(r) : k # d => r[k] \in Digits

\* C8: main returns 0 exactly when no subcommand was given or the chosen
\* strategy ran to completion; with a subcommand it returns 1 when the input
\* file does not exist and when an error is raised while opening the
\* document, parsing the range tokens (a token not of the form <int>-<int>)
\* or running the strategy (pages with NUM = 0); it returns nothing else.
C8_ExitCode ==
  pc = "exited" =>
    /\ exitCode \in {0, 1}
    /\ exitCode = 0 <=> event \in {"help", "completed"}
    /\ event = "help" <=> mode = "none"
    /\ (mode = "pages" /\ event \notin {"missing", "open_error"}
          /\ pages_per_file = 0) => exitCode = 1
    /\ (mode = "range" /\ \E k \in 1..Len(range_tokens) :
                             ~WellFormed(range_tokens[k])) => exitCode = 1

C8_Witness ==
  /\ pc = "exited" /\ mode = "pages"
  /\ pages_per_file = 0
  /\ event = "strategy_error"
  /\ exitCode = 1

\* ---- C9
\* the table of contents the claim attaches to the section of the level-1
\* entry at position k of t
ClaimedSectionToc(t, k) ==
  LET next == {j \in (k + 1)..Len(t) : t[j].level = 1}
      last == IF next = {} THEN Len(t)
              ELSE (CHOOSE j \in next : \A j2 \in next : j <= j2) - 1
  IN  <<[level |-> t[k].level, title |-> t[k].title, page |-> 1]>>
      \o [j \in 1..(last - k) |->
            [level |-> t[k + j].level, title |-> t[k + j].title,
             page |-> t[k + j].page - t[k].page + 1]]

\* C9: for every level-1 entry whose section has a page and a nested entry,
\* the attached table of contents is the entry at page 1 followed by the
\* source's nested entries up to the next level-1 entry, in source order,
\* level and title unchanged, page = source page - section start + 1; every
\* attached page number lies in 1..(pages of the sub-document).
C9_SectionToc ==
  (Returned /\ mode = "bookmark" /\ toc # <<>>) =>
    LET tops == SortSet({k \in 1..Len(toc) : toc[k].level = 1 /\ k \notin warned})
    IN  \A a \in 1..Len(tops) :
          (a <= Len(saved) /\ Len(ClaimedSectionToc(toc, tops[a])) > 1) =>
            /\ saved[a].toc = ClaimedSectionToc(toc, tops[a])
            /\ \A j \in 1..Len(saved[a].toc) :
                 saved[a].toc[j].page \in 1..Len(saved[a].pages)

\* ---- C10
\* C10: within one invocation no two saved partitions are written to the
\* same output path: the returned list has no duplicates.
C10_DistinctPaths == Ended => NoRepeat(output_files)

====
